---- MODULE Spec2Model ----
(***************************************************************************)
(* Model of the dice sampler of catan-tracker (lib/adaptiveDice.ts and     *)
(* lib/diceConstants.ts): the RealDice, AdaptiveDice and ShuffleBagDice    *)
(* strategies, the Alias table they draw from, and the functional /        *)
(* DiceManager facade over them.                                           *)
(*                                                                         *)
(* Numbers.  The program computes in IEEE doubles.  The model computes in  *)
(* a reduced binary format: a finite number is an integer count of units   *)
(* of 1/SCALE, every arithmetic operation rounds its exact result to the   *)
(* nearest unit, a result beyond MaxFinite overflows to Inf, and NaN       *)
(* propagates as in IEEE 754 (Inf/Inf, 0*Inf, 0/0).  Math.exp is computed  *)
(* the way a libm computes it (range reduction by ln 2, a polynomial on    *)
(* the remainder, a shift), overflowing to Inf above ExpMaxArg and         *)
(* underflowing to 0 below ExpMinArg.  The format is narrower than a       *)
(* double, so rounding, underflow and overflow show at smaller magnitudes  *)
(* than in the program (exp overflows above ~4.16 here, above ~709.78      *)
(* there; it underflows to 0 below ~-9 here, below ~-745 there); the       *)
(* operations and their order are those of the source.                     *)
(*                                                                         *)
(* Evaluation.  An operator that reads an argument or an intermediate      *)
(* result more than once binds it first, as x in The({ body : x \in {e} }),*)
(* so that e is computed once, like the local variable it stands for.      *)
(***************************************************************************)
EXTENDS Integers, Sequences, FiniteSets, TLC

VARIABLES dice, state, ret, pre, returned, given

vars == <<dice, state, ret, pre, returned, given>>

(* ------------------------------ numbers -------------------------------- *)

\* The element of a one-element set.
The(S) == CHOOSE x \in S : TRUE

SCALE == 2^12
ONE == SCALE
Inf == 2^30
NegInf == -(2^30)
NaN == 2^30 + 2^29
MaxFinite == 2^18 - 1

IsNaN(x) == x = NaN
IsFinite(x) == x \notin {NaN, Inf, NegInf}

\* A JS integer n as a number of the format.
IntF(n) == n * SCALE

\* Round-to-nearest integer quotient, b > 0.
RDiv(a, b) == (a + (b \div 2)) \div b

\* Overflow of a finite result.
Fl(x0) ==
  The({IF x > MaxFinite THEN Inf ELSE IF x < -MaxFinite THEN NegInf ELSE x :
       x \in {x0}})

FNeg(a0) ==
  The({IF IsNaN(a) THEN NaN
       ELSE IF a = Inf THEN NegInf
       ELSE IF a = NegInf THEN Inf
       ELSE -a : a \in {a0}})

FAdd(a0, b0) ==
  The({IF IsNaN(a) \/ IsNaN(b) THEN NaN
       ELSE IF a = Inf THEN (IF b = NegInf THEN NaN ELSE Inf)
       ELSE IF a = NegInf THEN (IF b = Inf THEN NaN ELSE NegInf)
       ELSE IF b = Inf \/ b = NegInf THEN b
       ELSE Fl(a + b) : a \in {a0}, b \in {b0}})

FSub(a, b) == FAdd(a, FNeg(b))

FMul(a0, b0) ==
  The({IF IsNaN(a) \/ IsNaN(b) THEN NaN
       ELSE IF ~IsFinite(a) \/ ~IsFinite(b)
            THEN (IF a = 0 \/ b = 0 THEN NaN
                  ELSE IF (a > 0) = (b > 0) THEN Inf ELSE NegInf)
       ELSE Fl(RDiv(a * b, SCALE)) : a \in {a0}, b \in {b0}})

FDiv(a0, b0) ==
  The({IF IsNaN(a) \/ IsNaN(b) THEN NaN
       ELSE IF ~IsFinite(a)
            THEN (IF ~IsFinite(b) THEN NaN
                  ELSE IF (a > 0) = (b >= 0) THEN Inf ELSE NegInf)
       ELSE IF ~IsFinite(b) THEN 0
       ELSE IF b = 0
            THEN (IF a = 0 THEN NaN ELSE IF a > 0 THEN Inf ELSE NegInf)
       ELSE IF b > 0 THEN Fl(RDiv(a * SCALE, b))
       ELSE Fl(RDiv((-a) * SCALE, -b)) : a \in {a0}, b \in {b0}})

\* Comparisons: every comparison with NaN is false.
FLt(a0, b0) == \E a \in {a0}, b \in {b0} : ~IsNaN(a) /\ ~IsNaN(b) /\ a < b
FGt(a, b) == FLt(b, a)
FLe(a0, b0) == \E a \in {a0}, b \in {b0} : ~IsNaN(a) /\ ~IsNaN(b) /\ a <= b
FGe(a, b) == FLe(b, a)

\* Math.exp: x = n*ln2 + r with 0 <= r < ln2, e^r by a degree-6 polynomial
\* (Horner), then scaled by 2^n.
LN2 == (SCALE * 6931) \div 10000
ExpMaxArg == 6 * LN2 - 1
ExpMinArg == -(13 * LN2)

\* e^r for 0 <= r < ln2.
ExpPoly(r) ==
  LET h5 == ONE + RDiv(r, 6)
      h4 == ONE + RDiv(r * h5, 5 * SCALE)
      h3 == ONE + RDiv(r * h4, 4 * SCALE)
      h2 == ONE + RDiv(r * h3, 3 * SCALE)
      h1 == ONE + RDiv(r * h2, 2 * SCALE)
  IN ONE + RDiv(r * h1, SCALE)

Exp(x0) ==
  The({IF IsNaN(x) THEN NaN
       ELSE IF x > ExpMaxArg THEN Inf
       ELSE IF x < ExpMinArg THEN 0
       ELSE The({IF n >= 0 THEN Fl(ExpPoly(x - n * LN2) * 2^n)
                 ELSE RDiv(ExpPoly(x - n * LN2), 2^(-n)) : n \in {x \div LN2}})
       : x \in {x0}})

(* --------------------------- types & constants ------------------------- *)

\* SUMS.length: the eleven sums 2..12.
N == 11
Idx == 0 .. N - 1

\* An array literal: the function f with every element computed.
Arr(f) == f @@ <<>>

SUMS == Arr([k \in Idx |-> k + 2])

\* Two-dice multiplicities for sums 2..12 (index k is sum k + 2), total 36.
TWO_DICE_COUNTS ==
  Arr([k \in Idx |-> <<1, 2, 3, 4, 5, 6, 5, 4, 3, 2, 1>>[k + 1]])

\* TARGET_P[k] = TWO_DICE_COUNTS[k] / 36, a rounded quotient.
TARGET_P == Arr([k \in Idx |-> FDiv(IntF(TWO_DICE_COUNTS[k]), IntF(36))])

isDiceOutcome(v) == v \in {SUMS[k] : k \in Idx}

\* v.reduce((a, b) => a + b, 0) over the indices 0..k.
RECURSIVE SumUpTo(_, _)
SumUpTo(v, k) == IF k < 0 THEN 0 ELSE FAdd(SumUpTo(v, k - 1), v[k])

Sum(v, n) == SumUpTo(v, n - 1)

(* -------------------------------- Alias -------------------------------- *)

\* scaled.forEach((x, i) => (x < 1 ? small : large).push(i)): the work list
\* (small when wantSmall, else large) after the indices 0..i.
RECURSIVE Pushed(_, _, _)
Pushed(scaled, i, wantSmall) ==
  IF i < 0 THEN <<>>
  ELSE IF FLt(scaled[i], ONE) = wantSmall
       THEN Append(Pushed(scaled, i - 1, wantSmall), i)
       ELSE Pushed(scaled, i - 1, wantSmall)

Pop(s) == SubSeq(s, 1, Len(s) - 1)
Top(s) == s[Len(s)]

\* One turn of the pairing loop that leaves l on the small list.
AliasStepKeepingSmall(st, l, g, sg) ==
  [scaled |-> [st.scaled EXCEPT ![g] = sg],
   small  |-> IF FLt(sg, ONE) THEN Append(st.small, g) ELSE st.small,
   large  |-> IF FLt(sg, ONE) THEN Pop(st.large) ELSE Append(Pop(st.large), g),
   q      |-> [st.q EXCEPT ![l] = st.scaled[l]],
   J      |-> [st.J EXCEPT ![l] = g]]

\* One turn of while (small.length && large.length) { ... }: l and g popped,
\* sg the new scaled[g].
AliasStep(st, l, g, sg) ==
  [scaled |-> [st.scaled EXCEPT ![g] = sg],
   small  |-> IF FLt(sg, ONE) THEN Append(Pop(st.small), g) ELSE Pop(st.small),
   large  |-> IF FLt(sg, ONE) THEN Pop(st.large) ELSE Append(Pop(st.large), g),
   q      |-> [st.q EXCEPT ![l] = st.scaled[l]],
   J      |-> [st.J EXCEPT ![l] = g]]

\* while (small.length && large.length) { ... }
RECURSIVE AliasPair(_)
AliasPair(st0) ==
  The({IF st.small = <<>> \/ st.large = <<>> THEN st
       ELSE The({AliasPair(AliasStep(st, Top(st.small), Top(st.large), sg)) :
                 sg \in {FSub(st.scaled[Top(st.large)],
                              FSub(ONE, st.scaled[Top(st.small)]))}})
       : st \in {st0}})

\* The tables of a failed or not yet run build: new Float64Array(0), n = 0.
NoTables == [q |-> <<>>, J |-> <<>>, n |-> 0]

\* The tables once the two work lists are paired off: the indices left on
\* either list get q = 1.
AliasTables(st, n) ==
  [q |-> Arr([i \in 0 .. n - 1 |->
                IF \/ \E j \in 1 .. Len(st.small) : st.small[j] = i
                   \/ \E j \in 1 .. Len(st.large) : st.large[j] = i
                THEN ONE ELSE st.q[i]]),
   J |-> st.J,
   n |-> n]

\* The build from the normalisation on, probs and sum given.
AliasScaled(probs, sum, n) ==
  The({The({AliasTables(st, n) :
            st \in {AliasPair([scaled |-> scaled,
                               small  |-> Pushed(scaled, n - 1, TRUE),
                               large  |-> Pushed(scaled, n - 1, FALSE),
                               q      |-> Arr([i \in 0 .. n - 1 |-> 0]),
                               J      |-> Arr([i \in 0 .. n - 1 |-> 0])])}})
       : scaled \in {Arr([i \in 0 .. n - 1 |->
                            FMul(FDiv(IF FLt(probs[i], 0) THEN 0 ELSE probs[i],
                                      sum),
                                 IntF(n))])}})

\* Alias.build(probs) for a vector of length n: ok = FALSE is the throw,
\* err the error it throws.
AliasBuild(probs0, n) ==
  The({IF n = 0
       THEN [ok |-> FALSE, err |-> "empty vector", tables |-> NoTables]
       ELSE The({IF ~FGt(sum, 0)
                 THEN [ok |-> FALSE, err |-> "must sum to > 0",
                       tables |-> NoTables]
                 ELSE [ok |-> TRUE, err |-> "",
                       tables |-> AliasScaled(probs, sum, n)]
                 : sum \in {Sum(probs, n)}})
       : probs \in {probs0}})

\* A build() that has dropped the tables by the time it throws.
BuiltOrCleared(alias, b) == b.tables

\* The tables (q, J, n) of an Alias object after a build() that ended as b:
\* the three fields are assigned at the end of a build that returns.
Built(alias, b) == IF b.ok THEN b.tables ELSE alias

\* Alias.sampleIndex with i = rng.int(n) and u = rng.float01().
sampleIndex(alias, i, u) == IF FLt(u, alias.q[i]) THEN i ELSE alias.J[i]

\* rng.float01() is in [0, 1): u < q[i] takes over that range exactly the
\* truth values it takes at the two ends of the range.
Float01 == {0, ONE - 1}

(* ------------------------------- RealDice ------------------------------ *)

\* state?.f ?? dflt
Opt(s, f, dflt) == IF f \in DOMAIN s THEN s[f] ELSE dflt

\* ensureDiceOutcome(v): ok = FALSE is the throw.
ensureDiceOutcome(v) ==
  [ok |-> isDiceOutcome(v),
   err |-> IF isDiceOutcome(v) THEN "" ELSE "invalid outcome"]

\* new RealDice(stateOrRng): s is the state record, or <<>> for none.
RealNew(s) ==
  [ok |-> TRUE, err |-> "",
   dice |-> [mode |-> "real-life",
             rolls |-> IF "mode" \in DOMAIN s THEN Opt(s, "rolls", <<>>)
                       ELSE <<>>]]

\* RealDice.roll() with a = rng.int(6) and b = rng.int(6).
RealRoll(d, a, b) ==
  LET outcome == (a + 1) + (b + 1)
      v == ensureDiceOutcome(outcome)
  IN [ok |-> v.ok, err |-> v.err,
      dice |-> IF v.ok THEN [d EXCEPT !.rolls = Append(d.rolls, outcome)] ELSE d,
      out |-> outcome]

\* RealDice.addRoll(outcome).
RealAddRollInFront(d, outcome) ==
  [ok |-> TRUE, err |-> "",
   dice |-> [d EXCEPT !.rolls = <<outcome>> \o d.rolls], out |-> 0]

RealAddRoll(d, outcome) ==
  [ok |-> TRUE, err |-> "",
   dice |-> [d EXCEPT !.rolls = Append(d.rolls, outcome)], out |-> 0]

\* undo() that returns quietly when there is nothing to undo.
RealUndoSilent(d) ==
  [ok |-> TRUE, err |-> "",
   dice |-> IF Len(d.rolls) = 0 THEN d ELSE [d EXCEPT !.rolls = Pop(d.rolls)],
   out |-> 0]

\* RealDice.undo().
RealUndo(d) ==
  IF Len(d.rolls) = 0
  THEN [ok |-> FALSE, err |-> "no rolls", dice |-> d, out |-> 0]
  ELSE [ok |-> TRUE, err |-> "", dice |-> [d EXCEPT !.rolls = Pop(d.rolls)],
        out |-> 0]

\* RealDice.toState().
RealToState(d) == [mode |-> "real-life", rolls |-> d.rolls]

(* ----------------------------- AdaptiveDice ---------------------------- *)

DefaultBeta == FDiv(IntF(4), IntF(10))
DefaultEta == IntF(20)
DefaultEpsilon == FDiv(IntF(1), IntF(100))

\* getCounts(): counts[roll - 2]++ over the history.
getCounts(rolls) ==
  Arr([k \in Idx |-> Cardinality({i \in 1 .. Len(rolls) : rolls[i] - 2 = k})])

\* e[k] = (1 - beta) * e[k] + beta * (counts[k] / t - TARGET_P[k]), every k.
emaUpdate(e0, counts0, t, beta) ==
  The({Arr([k \in Idx |->
              FAdd(FMul(FSub(ONE, beta), e[k]),
                   FMul(beta,
                        FSub(FDiv(IntF(counts[k]), IntF(t)), TARGET_P[k])))])
       : e \in {e0}, counts \in {counts0}})

\* The second half of computeWeights(): the mix with the target and the
\* renormalisation, w given.
mixWithTarget(w, epsilon) ==
  The({The({Arr([k \in Idx |-> FDiv(qm[k], qSum)]) : qSum \in {Sum(qm, N)}})
       : qm \in {Arr([k \in Idx |->
                        FAdd(FMul(FSub(ONE, epsilon), w[k]),
                             FMul(epsilon, TARGET_P[k]))])}})

\* computeWeights(): q from the EMA errors e.
computeWeights(e0, eta, epsilon) ==
  The({The({The({mixWithTarget(w, epsilon) :
                 w \in {IF ~FGt(wSum, 0) THEN TARGET_P
                        ELSE Arr([k \in Idx |-> FDiv(w0[k], wSum)])}})
            : wSum \in {Sum(w0, N)}})
       : w0 \in {Arr([k \in Idx |->
                        FMul(TARGET_P[k], Exp(FMul(FNeg(eta), e0[k])))])}})

\* The replay loop of rebuildFromRolls: e after the rolls i..Len(rolls),
\* given e after the first i - 1.
RECURSIVE replayFrom(_, _, _, _)
replayFrom(e, rolls, i, beta) ==
  IF i > Len(rolls) THEN e
  ELSE replayFrom(emaUpdate(e, getCounts(SubSeq(rolls, 1, i)), i, beta),
                  rolls, i + 1, beta)

ZeroE == Arr([k \in Idx |-> 0])

\* rebuildFromRolls(): e and q recomputed from the history of d.
rebuildFromRolls(d0) ==
  The({IF Len(d.rolls) = 0
       THEN [d EXCEPT !.e = ZeroE, !.q = TARGET_P]
       ELSE The({[d EXCEPT !.e = e1,
                           !.q = computeWeights(e1, d.eta, d.epsilon)]
                 : e1 \in {replayFrom(ZeroE, d.rolls, 1, d.beta)}})
       : d \in {d0}})

\* rebuild(): this.alias.build(this.q); the throw leaves the tables as they were.
rebuild(d0) ==
  The({The({[ok |-> b.ok, err |-> b.err,
             dice |-> [d EXCEPT !.alias = Built(d.alias, b)]]
            : b \in {AliasBuild(d.q, N)}})
       : d \in {d0}})

\* The result of a method that ends with rebuild(), returning out.
Rebuilt(d, out) ==
  The({[ok |-> r.ok, err |-> r.err, dice |-> r.dice, out |-> out]
       : r \in {rebuild(d)}})

\* roll() updating the EMA error of the drawn index alone.
AdaptiveRollDrawnOnly(d, i, u) ==
  The({The({Rebuilt([d EXCEPT !.rolls = Append(d.rolls, SUMS[idx]), !.e = e1,
                              !.q = computeWeights(e1, d.eta, d.epsilon)],
                    SUMS[idx])
            : e1 \in {Arr([k \in Idx |->
                             IF k = idx
                             THEN emaUpdate(d.e, getCounts(Append(d.rolls, SUMS[idx])),
                                            Len(d.rolls) + 1, d.beta)[k]
                             ELSE d.e[k]])}})
       : idx \in {sampleIndex(d.alias, i, u)}})

\* AdaptiveDice.roll() with i = rng.int(n), u = rng.float01().
\* ok = FALSE is a throw; dice is the instance as the call leaves it.
AdaptiveRoll(d, i, u) ==
  The({The({Rebuilt([d EXCEPT !.rolls = Append(d.rolls, sum), !.e = e1,
                              !.q = computeWeights(e1, d.eta, d.epsilon)],
                    sum)
            : e1 \in {emaUpdate(d.e, getCounts(Append(d.rolls, sum)),
                                Len(d.rolls) + 1, d.beta)}})
       : sum \in {SUMS[sampleIndex(d.alias, i, u)]}})

\* AdaptiveDice.undo().
AdaptiveUndo(d) ==
  IF Len(d.rolls) = 0
  THEN [ok |-> FALSE, err |-> "no rolls", dice |-> d, out |-> 0]
  ELSE Rebuilt(rebuildFromRolls([d EXCEPT !.rolls = Pop(d.rolls)]), 0)

\* AdaptiveDice.toState().
AdaptiveToState(d) ==
  [mode |-> "adaptive", beta |-> d.beta, eta |-> d.eta,
   epsilon |-> d.epsilon, rolls |-> d.rolls]

\* A validation that lets any beta pass.
ValidParamsAnyBeta(beta, eta, epsilon) ==
  /\ FGe(eta, 0)
  /\ FGe(epsilon, 0) /\ FLe(epsilon, ONE)

\* The parameter validation of the constructor.
ValidParams(beta, eta, epsilon) ==
  /\ FGt(beta, 0) /\ FLe(beta, ONE)
  /\ FGe(eta, 0)
  /\ FGe(epsilon, 0) /\ FLe(epsilon, ONE)

\* The fields of the constructor before anything is derived from the rolls.
AdaptiveFields(s) ==
  [mode |-> "adaptive",
   beta |-> Opt(s, "beta", DefaultBeta),
   eta |-> Opt(s, "eta", DefaultEta),
   epsilon |-> Opt(s, "epsilon", DefaultEpsilon),
   rolls |-> IF "mode" \in DOMAIN s THEN Opt(s, "rolls", <<>>) ELSE <<>>,
   e |-> ZeroE, q |-> TARGET_P, alias |-> NoTables]

\* new AdaptiveDice(optionsOrState): s is the options or the state record.
\* ok = FALSE is a throw (no instance); dice holds the fields as the
\* constructor computed them up to there.
AdaptiveNew(s) ==
  The({IF ~ValidParams(d.beta, d.eta, d.epsilon)
       THEN [ok |-> FALSE, err |-> "parameter", dice |-> d]
       ELSE The({[ok |-> r.ok, err |-> r.err, dice |-> r.dice]
                 : r \in {rebuild(IF Len(d.rolls) > 0 THEN rebuildFromRolls(d)
                                  ELSE d)}})
       : d \in {AdaptiveFields(s)}})

(* ---------------------------- ShuffleBagDice --------------------------- *)

\* Bounds of the random source: rng.int(m) is drawn from NumTapes values
\* spread over 0 .. m - 1, one choice ("tape") for a whole shuffle.
NumTapes == 2
Tapes == 0 .. NumTapes - 1
RngInt(tape, m) == (tape * (m - 1)) \div (NumTapes - 1)

DefaultBagSize == 36

\* new ShuffleBagDice(bagSizeOrState): s is [bagSize |-> n] for a number, or
\* the state record.  The sizes are integers of the model, for which
\* Number.isInteger holds; a size that is no integer is no multiple of 36
\* either and throws by the second test.
BagNew(s) ==
  LET isState == "mode" \in DOMAIN s
      bagSize == Opt(s, "bagSize", DefaultBagSize)
      d == [mode |-> "shuffle-bag", bagSize |-> bagSize,
            rollsBag |-> IF isState THEN Opt(s, "rolls", <<>>) ELSE <<>>,
            ptr |-> IF isState THEN Opt(s, "bagPtr", 0) ELSE 0]
  IN IF bagSize <= 0
     THEN [ok |-> FALSE, err |-> "positive integer", dice |-> d]
     ELSE IF bagSize % 36 # 0
     THEN [ok |-> FALSE, err |-> "multiple of 36", dice |-> d]
     ELSE [ok |-> TRUE, err |-> "", dice |-> d]

\* A get rolls() that reports the stored bags whole: rollsBag.slice().
BagRollsWholeBag(d) == d.rollsBag

\* The get rolls() of the bag: rollsBag.slice(0, ptr).
BagRolls(d) == SubSeq(d.rollsBag, 1, d.ptr)

\* for (k < copies) rollsBag.push(v)
RECURSIVE Copies(_, _)
Copies(v, copies) == IF copies <= 0 THEN <<>> ELSE <<v>> \o Copies(v, copies - 1)

\* A first loop that pushes the index i in place of the sum SUMS[i].
RECURSIVE FreshOfIndices(_, _)
FreshOfIndices(i, mult) ==
  IF i >= N THEN <<>>
  ELSE Copies(i, TWO_DICE_COUNTS[i] * mult) \o FreshOfIndices(i + 1, mult)

\* The first loop of extend(): the sums i..10, TWO_DICE_COUNTS[i] * mult of each.
RECURSIVE Fresh(_, _)
Fresh(i, mult) ==
  IF i >= N THEN <<>>
  ELSE Copies(SUMS[i], TWO_DICE_COUNTS[i] * mult) \o Fresh(i + 1, mult)

\* An element assignment in place of the swap: bag[a] = bag[b] only.
SwapOverwrite(bag0, a, b) ==
  The({[bag EXCEPT ![a + 1] = bag[b + 1]] : bag \in {bag0}})

\* [bag[a], bag[b]] = [bag[b], bag[a]], a and b counted from 0.
Swap(bag0, a, b) ==
  The({[bag EXCEPT ![a + 1] = bag[b + 1], ![b + 1] = bag[a + 1]] :
       bag \in {bag0}})

\* The Fisher-Yates loop of extend(), for (i = hi; i >= lo; i--):
\*   j = rng.int(i + 1); swap(offset + i, offset + j).
\* The loop over hi..lo is the loop over the upper half of the range followed
\* by the loop over the lower half.
RECURSIVE FisherYates(_, _, _, _, _)
FisherYates(bag, offset, hi, lo, tape) ==
  IF hi < lo THEN bag
  ELSE IF hi = lo
       THEN Swap(bag, offset + hi, offset + RngInt(tape, hi + 1))
       ELSE The({FisherYates(upper, offset, (hi + lo) \div 2, lo, tape) :
                 upper \in {FisherYates(bag, offset, hi,
                                        (hi + lo) \div 2 + 1, tape)}})

\* An extend() whose shuffle runs over the whole stored sequence.
extendShufflingAll(d, tape) ==
  [d EXCEPT !.rollsBag =
     FisherYates(d.rollsBag \o Fresh(0, d.bagSize \div 36),
                 0, Len(d.rollsBag) + d.bagSize - 1, 1, tape)]

\* extend(): a fresh bag pushed after the old ones and shuffled in place.
extend(d, tape) ==
  [d EXCEPT !.rollsBag =
     FisherYates(d.rollsBag \o Fresh(0, d.bagSize \div 36),
                 Len(d.rollsBag), d.bagSize - 1, 1, tape)]

\* ShuffleBagDice.roll(); tape is the random source of the shuffle, if any.
BagRoll(d, tape) ==
  The({[ok |-> TRUE, err |-> "", dice |-> [d1 EXCEPT !.ptr = d1.ptr + 1],
        out |-> d1.rollsBag[d1.ptr + 1]]
       : d1 \in {IF d.ptr >= Len(d.rollsBag) THEN extend(d, tape) ELSE d}})

\* undo() that returns quietly at the start of the bag.
BagUndoSilentAtStart(d) ==
  [ok |-> TRUE, err |-> "",
   dice |-> IF d.ptr = 0 THEN d ELSE [d EXCEPT !.ptr = d.ptr - 1], out |-> 0]

\* No element of the current bag has been drawn: the pointer is at the start
\* of a bag that exists (or at 0, before any bag).
CurrentBagUndrawn(d) ==
  /\ d.ptr % d.bagSize = 0
  /\ d.ptr = 0 \/ Len(d.rollsBag) > d.ptr

\* undo() that refuses to step back over the start of the current bag.
BagUndoWithinBag(d) ==
  IF CurrentBagUndrawn(d)
  THEN [ok |-> FALSE, err |-> "at start of bag", dice |-> d, out |-> 0]
  ELSE [ok |-> TRUE, err |-> "", dice |-> [d EXCEPT !.ptr = d.ptr - 1],
        out |-> 0]

\* ShuffleBagDice.undo().
BagUndo(d) ==
  IF d.ptr = 0
  THEN [ok |-> FALSE, err |-> "at start of bag", dice |-> d, out |-> 0]
  ELSE [ok |-> TRUE, err |-> "", dice |-> [d EXCEPT !.ptr = d.ptr - 1],
        out |-> 0]

\* A toState() that leaves the pointer out of the snapshot.
BagToStateNoPtr(d) ==
  [mode |-> "shuffle-bag", rolls |-> d.rollsBag, bagSize |-> d.bagSize]

\* ShuffleBagDice.toState().
BagToState(d) ==
  [mode |-> "shuffle-bag", rolls |-> d.rollsBag, bagSize |-> d.bagSize,
   bagPtr |-> d.ptr]

(* ------------------------ facade and state machine ---------------------- *)
(* dice is the strategy instance held by the DiceManager, state the plain   *)
(* DiceState it holds.  ret is the result of the last call: the operation,  *)
(* its entry point, whether it returned (ok) or threw (err), the outcome it *)
(* returned (of an addRoll that returned: the outcome it was given).        *)
(* Two records of the past serve the properties: pre is <<X>>    *)
(* while the last call, or the one before an undo, is a roll() on the       *)
(* adaptive instance X that the undo then worked on, else <<>>; returned    *)
(* is the stack of the outcomes the shuffle bag's roll() returned, popped   *)
(* by each undo that succeeded.                                             *)
(* States and histories are values: state is the DiceState the caller     *)
(* holds after the call (the one returned, or the one passed in if the     *)
(* call threw).  A constructor that is given a state with a rolls array     *)
(* keeps that array as its own, so a push or pop by the instance shows in   *)
(* the state object it was built from.  given follows that array, the only *)
(* part of a state object a call can change: obj is the rolls array of the  *)
(* DiceState the manager's instance was built from, as it is now (<<a>> for *)
(* an array a, <<>> for a state without one); held is TRUE while the        *)
(* manager's state still is that object (toState() has not replaced it);    *)
(* arg is the rolls array of the DiceState handed to the last call, as the  *)
(* call leaves it (for a DiceManager method: the object of its constructor).*)

\* Bounds of the model: the rolls in a history of RealDice and AdaptiveDice,
\* the bags a ShuffleBagDice draws, and its bag sizes 36 * (1 .. MaxScale).
MaxRolls == 2
MaxBags == 2
MaxScale == 2

\* The entry points of the facade: DiceManager methods on its instance, and
\* the functional roll(state) / undo(state), which build the instance from
\* the state they are given.
Vias == {"manager", "functional"}

\* The values of rng.int(N) the model draws: the first, the middle and the
\* last column of the alias table.
RngInts == {0, N \div 2, N - 1}

Ret(op, via, ok, err, out) ==
  [op |-> op, via |-> via, ok |-> ok, err |-> err, out |-> out]

\* What a caller holds when a constructor threw: no instance.
NoInstance == [mode |-> "none"]

\* state.mode, undefined when the state has no mode tag.
modeOf(s) == IF "mode" \in DOMAIN s THEN s.mode ELSE "undefined"

\* getDice(state) with the real-life strategy as the default of the dispatch.
getDiceWithDefault(s) ==
  CASE modeOf(s) = "adaptive" -> AdaptiveNew(s)
    [] modeOf(s) = "shuffle-bag" -> BagNew(s)
    [] OTHER -> RealNew(s)

\* getDice(state): the three tags, else the throw of the exhaustiveness check.
getDice(s) ==
  CASE modeOf(s) = "real-life" -> RealNew(s)
    [] modeOf(s) = "adaptive" -> AdaptiveNew(s)
    [] modeOf(s) = "shuffle-bag" -> BagNew(s)
    [] OTHER -> [ok |-> FALSE, err |-> "unknown dice mode", dice |-> NoInstance]

\* instance.toState().
ToState(d) ==
  CASE d.mode = "real-life" -> RealToState(d)
    [] d.mode = "adaptive" -> AdaptiveToState(d)
    [] d.mode = "shuffle-bag" -> BagToState(d)

\* instance.rolls, the history an instance reports.
Rolls(d) == IF d.mode = "shuffle-bag" THEN BagRolls(d) ELSE d.rolls

\* The instance a call works on: the manager's own, or getDice(state).
Instance(via) ==
  IF via = "manager" THEN [ok |-> TRUE, err |-> "", dice |-> dice]
  ELSE getDice(state)

\* The array an instance keeps its rolls in.
rollsArray(d) == IF d.mode = "shuffle-bag" THEN d.rollsBag ELSE d.rolls

\* state.rolls: <<a>> for the array a, <<>> for a state without one.
ArrayOf(s) == IF "rolls" \in DOMAIN s THEN <<s.rolls>> ELSE <<>>

\* The rolls array a of a state object once the instance built from the
\* object has become d: the constructor has taken the array as its own.
After(a, d) == IF a = <<>> THEN <<>> ELSE <<rollsArray(d)>>

\* The state object s, its rolls array being a by now.
WithRolls(s, a) == IF a = <<>> THEN s ELSE [s EXCEPT !.rolls = a[1]]

\* The instance d when another holder of its rolls array has made it a.
WithArray(d, a) ==
  IF d.mode = "shuffle-bag" THEN [d EXCEPT !.rollsBag = a]
  ELSE [d EXCEPT !.rolls = a]

Given(obj, held, arg) == [obj |-> obj, held |-> held, arg |-> arg]

\* The effect of a call that ran the strategy's method with result r on the
\* instance c.  The manager keeps its instance as the method left it and
\* takes its state from toState() if the method returned; the functional
\* call returns toState() of its own instance, and the provider builds the
\* manager of the new state.  A method that threw leaves the caller with
\* the state object it had, which shows what the method did to the array.
Commit(op, via, c, r, out) ==
  IF ~c.ok
  THEN /\ UNCHANGED <<dice, state>>
       /\ ret' = Ret(op, via, FALSE, c.err, 0)
       /\ given' = [given EXCEPT !.arg = IF via = "manager" THEN given.obj
                                         ELSE ArrayOf(state)]
  ELSE /\ ret' = Ret(op, via, r.ok, r.err, IF r.ok THEN out ELSE 0)
       /\ IF via = "manager"
          THEN \E obj \in {After(given.obj, r.dice)} :
                 /\ dice' = r.dice
                 /\ state' = IF r.ok THEN ToState(r.dice)
                             ELSE IF given.held THEN WithRolls(state, obj)
                             ELSE state
                 /\ given' = Given(obj, given.held /\ ~r.ok, obj)
          ELSE \E arg \in {After(ArrayOf(state), r.dice)} :
                 /\ state' = IF r.ok THEN ToState(r.dice)
                             ELSE WithRolls(state, arg)
                 /\ dice' = IF r.ok THEN getDice(state').dice
                            ELSE IF given.held /\ arg # <<>>
                            THEN WithArray(dice, arg[1])
                            ELSE dice
                 /\ given' = IF r.ok THEN Given(ArrayOf(state'), TRUE, arg)
                             ELSE Given(IF given.held THEN arg ELSE given.obj,
                                        given.held, arg)

(* real-life *)

\* manager.roll() / roll(state) in real-life mode.
RealRollCall(via) ==
  /\ dice.mode = "real-life"
  /\ \E a \in 0 .. 5, b \in 0 .. 5 :
       \E c \in {Instance(via)} :
         /\ Len(c.dice.rolls) < MaxRolls
         /\ \E r \in {RealRoll(c.dice, a, b)} : Commit("roll", via, c, r, r.out)
  /\ UNCHANGED <<pre, returned>>

\* manager.addRoll(outcome): only a RealDice instance takes it.
AddRollCall ==
  /\ dice.mode = "real-life" => Len(dice.rolls) < MaxRolls
  /\ \E k \in RngInts :
       \E r \in {IF dice.mode = "real-life" THEN RealAddRoll(dice, SUMS[k])
                 ELSE [ok |-> FALSE, err |-> "real-life dice mode only",
                       dice |-> dice, out |-> 0]} :
         Commit("addRoll", "manager", Instance("manager"), r, SUMS[k])
  /\ UNCHANGED <<pre, returned>>

\* manager.undo() / undo(state) in real-life mode.
RealUndoCall(via) ==
  /\ dice.mode = "real-life"
  /\ \E c \in {Instance(via)} :
       \E r \in {RealUndo(c.dice)} : Commit("undo", via, c, r, 0)
  /\ UNCHANGED <<pre, returned>>

(* adaptive *)

\* Parameter settings that pass the validation of the constructor: the
\* defaults, a large eta with beta = 1, no floor, a full floor.
ParamSets ==
  {[beta |-> DefaultBeta, eta |-> DefaultEta, epsilon |-> DefaultEpsilon],
   [beta |-> ONE, eta |-> IntF(32), epsilon |-> DefaultEpsilon],
   [beta |-> ONE, eta |-> DefaultEta, epsilon |-> 0],
   [beta |-> ONE, eta |-> DefaultEta, epsilon |-> ONE]}

\* The states a game starts from: createInitialDiceState("adaptive"), and
\* the state of a fresh instance built with options.
AdaptiveInitialStates ==
  {[mode |-> "adaptive"]}
    \cup {[mode |-> "adaptive", beta |-> p.beta, eta |-> p.eta,
           epsilon |-> p.epsilon, rolls |-> <<>>] : p \in ParamSets}

\* manager.roll() / roll(state) in adaptive mode.
AdaptiveRollCall(via) ==
  /\ dice.mode = "adaptive"
  /\ \E i \in RngInts, u \in Float01 :
       \E c \in {Instance(via)} :
         /\ Len(c.dice.rolls) < MaxRolls
         /\ \E r \in {IF c.ok THEN AdaptiveRoll(c.dice, i, u) ELSE c} :
              /\ Commit("roll", via, c, r, r.out)
              /\ pre' = IF c.ok /\ (r.ok \/ via = "manager") THEN <<c.dice>>
                        ELSE <<>>
  /\ UNCHANGED returned

\* manager.undo() / undo(state) in adaptive mode.
AdaptiveUndoCall(via) ==
  /\ dice.mode = "adaptive"
  /\ \E c \in {Instance(via)} :
       \E r \in {IF c.ok THEN AdaptiveUndo(c.dice) ELSE c} :
         Commit("undo", via, c, r, 0)
  /\ pre' = IF ret.op = "roll" /\ (ret.ok \/ via = "manager") THEN pre ELSE <<>>
  /\ UNCHANGED returned

\* Derived fields a snapshot may carry from the earlier state layout
\* (emaErrors, t): the constructor of this revision does not read them.
StaleCaches ==
  {[emaErrors |-> Arr([k \in Idx |-> IF k = 5 THEN ONE \div 2 ELSE -(ONE \div 20)]),
    t |-> 3]}

WithCache(s, c) ==
  [f \in DOMAIN s \cup DOMAIN c |-> IF f \in DOMAIN s THEN s[f] ELSE c[f]]

\* Snapshots handed to DiceManager.from: the manager's state, alone or with
\* stale derived fields, and an imported one.
AdaptiveSnapshots ==
  {state}
    \cup {WithCache(state, c) : c \in StaleCaches}
    \cup {[mode |-> "adaptive", rolls |-> <<2, 12>>]}

\* DiceManager.from(snapshot): state = snapshot, instance = getDice(snapshot).
AdaptiveRestore ==
  /\ dice.mode = "adaptive"
  /\ \E s \in AdaptiveSnapshots :
       \E c \in {getDice(s)} :
         /\ dice' = IF c.ok THEN c.dice ELSE dice
         /\ state' = IF c.ok THEN s ELSE state
         /\ ret' = Ret("restore", "manager", c.ok, c.err, 0)
         /\ given' = IF c.ok THEN Given(ArrayOf(s), TRUE, ArrayOf(s))
                     ELSE given
  /\ pre' = <<>>
  /\ UNCHANGED returned

(* shuffle-bag *)

\* The states a game starts from: createInitialDiceState("shuffle-bag"), and
\* the state of a fresh instance built with a bag size.
BagInitialStates ==
  {[mode |-> "shuffle-bag", bagSize |-> DefaultBagSize]}
    \cup {BagToState(BagNew([bagSize |-> 36 * s]).dice) : s \in 1 .. MaxScale}

\* manager.roll() / roll(state) in shuffle-bag mode.
BagRollCall(via) ==
  /\ dice.mode = "shuffle-bag"
  /\ \E tape \in Tapes :
       \E c \in {Instance(via)} :
         /\ c.dice.ptr < MaxBags * c.dice.bagSize
         /\ \E r \in {IF c.ok THEN BagRoll(c.dice, tape) ELSE c} :
              /\ Commit("roll", via, c, r, r.out)
              /\ returned' = IF c.ok /\ r.ok THEN Append(returned, r.out)
                             ELSE returned
  /\ UNCHANGED pre

\* manager.undo() / undo(state) in shuffle-bag mode; a successful undo
\* reports the outcome of the roll it takes back.
BagUndoCall(via) ==
  /\ dice.mode = "shuffle-bag"
  /\ \E c \in {Instance(via)} :
       \E r \in {IF c.ok THEN BagUndo(c.dice) ELSE c} :
         /\ Commit("undo", via, c, r,
                   IF returned = <<>> THEN 0 ELSE Top(returned))
         /\ returned' = IF c.ok /\ r.ok /\ returned # <<>> THEN Pop(returned)
                        ELSE returned
  /\ UNCHANGED pre

(* specifications *)

\* new DiceManager(state).
InitFrom(states) ==
  /\ state \in states
  /\ dice = getDice(state).dice
  /\ ret = Ret("new", "manager", TRUE, "", 0)
  /\ pre = <<>>
  /\ returned = <<>>
  /\ given = Given(ArrayOf(state), TRUE, ArrayOf(state))

InitAdaptive == InitFrom(AdaptiveInitialStates)

NextAdaptive ==
  \/ \E via \in Vias : AdaptiveRollCall(via)
  \/ \E via \in Vias : AdaptiveUndoCall(via)
  \/ AdaptiveRestore

SpecAdaptive == InitAdaptive /\ [][NextAdaptive]_vars

InitBag == InitFrom(BagInitialStates)

NextBag ==
  \/ \E via \in Vias : BagRollCall(via)
  \/ \E via \in Vias : BagUndoCall(via)

SpecBag == InitBag /\ [][NextBag]_vars

\* Games with a history: real-life mode, and adaptive mode with the defaults.
InitPlain == InitFrom({[mode |-> "real-life"], [mode |-> "adaptive"]})

NextPlain ==
  \/ \E via \in Vias : RealRollCall(via)
  \/ \E via \in Vias : RealUndoCall(via)
  \/ AddRollCall
  \/ \E via \in Vias : AdaptiveRollCall(via)
  \/ \E via \in Vias : AdaptiveUndoCall(via)

SpecPlain == InitPlain /\ [][NextPlain]_vars

\* Games in each of the three modes, from a fresh instance; in adaptive mode
\* with the defaults and with the large eta.
InitAll ==
  InitFrom({[mode |-> "real-life"]}
             \cup {s \in AdaptiveInitialStates :
                     Opt(s, "eta", DefaultEta) # DefaultEta \/ "eta" \notin DOMAIN s}
             \cup BagInitialStates)

NextAll == NextPlain \/ NextBag

SpecAll == InitAll /\ [][NextAll]_vars

(* Alias on its own *)

\* Weights: zero, the smallest positive number, a third, one, and a number
\* so large that two of them sum beyond MaxFinite; a negative number and NaN.
Weights == {0, 1, ONE \div 3, ONE, IntF(40)}
BadWeights == {FNeg(ONE), NaN}

\* Bound of the model: the length of a probability vector.
MaxLen == 3

\* Probability vectors, as the sequences of their entries; at most one
\* entry of a vector is negative or NaN.
Vectors ==
  UNION {[1 .. n -> Weights] : n \in 0 .. MaxLen}
    \cup {<<b>> : b \in BadWeights}
    \cup {<<a, b>> : a \in Weights, b \in BadWeights}

\* The vectors a second build() is tried after: uniform, skewed, rounded.
FirstVectors == {<<ONE, ONE>>, <<0, ONE, ONE \div 3>>, <<1, ONE \div 3, ONE>>}

\* probs as build() indexes it, from 0.
probsOf(v) == Arr([i \in 0 .. Len(v) - 1 |-> v[i + 1]])

\* new Alias(probs, rng): the empty tables, then build(probs); a throw of
\* build() leaves no object.
AliasNewCall ==
  /\ ret.op = "none" /\ state # <<>>
  /\ \E b \in {AliasBuild(probsOf(Head(state)), Len(Head(state)))} :
       /\ dice' = IF b.ok THEN Built(NoTables, b) ELSE NoInstance
       /\ ret' = Ret("new", "Alias", b.ok, b.err, 0)
       /\ pre' = IF b.ok THEN <<Head(state)>> ELSE <<>>
  /\ state' = Tail(state)
  /\ UNCHANGED <<returned, given>>

\* alias.build(probs) on the object built before; pre is the vector its
\* tables were built from.
AliasBuildCall ==
  /\ ret.op # "none" /\ dice # NoInstance /\ state # <<>>
  /\ \E b \in {AliasBuild(probsOf(Head(state)), Len(Head(state)))} :
       /\ dice' = Built(dice, b)
       /\ ret' = Ret("build", "Alias", b.ok, b.err, 0)
       /\ pre' = IF b.ok THEN <<Head(state)>> ELSE pre
  /\ state' = Tail(state)
  /\ UNCHANGED <<returned, given>>

\* alias.sampleIndex() with i = rng.int(n) and u = rng.float01().
AliasSampleCall ==
  /\ ret.op \in {"new", "build"} /\ dice # NoInstance
  /\ \E i \in 0 .. dice.n - 1, u \in Float01 :
       ret' = Ret("sampleIndex", "Alias", TRUE, "", sampleIndex(dice, i, u))
  /\ UNCHANGED <<dice, state, pre, returned, given>>

\* state is the sequence of the vectors the caller is going to build from.
InitAlias ==
  /\ state \in {<<v>> : v \in Vectors}
                 \cup {<<v, w>> : v \in FirstVectors, w \in Vectors}
  /\ dice = NoInstance
  /\ ret = Ret("none", "none", TRUE, "", 0)
  /\ pre = <<>>
  /\ returned = <<>>
  /\ given = Given(<<>>, FALSE, <<>>)

NextAlias == AliasNewCall \/ AliasBuildCall \/ AliasSampleCall

SpecAlias == InitAlias /\ [][NextAlias]_vars

(* Alias.build statement by statement *)

\* One turn of the pairing loop, as build() takes it from the lists of st.
pairingTurn(st) ==
  AliasStep(st, Top(st.small), Top(st.large),
            FSub(st.scaled[Top(st.large)], FSub(ONE, st.scaled[Top(st.small)])))

\* The locals of build() at the head of the pairing loop: p and scaled, the
\* zeroed q and J, small and large filled by the forEach.
AliasEntered(probs, sum, n) ==
  The({[scaled |-> scaled,
        small  |-> Pushed(scaled, n - 1, TRUE),
        large  |-> Pushed(scaled, n - 1, FALSE),
        q      |-> Arr([i \in 0 .. n - 1 |-> 0]),
        J      |-> Arr([i \in 0 .. n - 1 |-> 0])]
       : scaled \in {Arr([i \in 0 .. n - 1 |->
                            FMul(FDiv(IF FLt(probs[i], 0) THEN 0 ELSE probs[i],
                                      sum),
                                 IntF(n))])}})

\* The frame of a running build(): its locals st, and two counts kept for
\* the properties: turns of the pairing loop taken, and for every index how
\* often its q entry was assigned.
BuildFrame(pc, n, st, turns, assigned) ==
  [mode |-> "build", pc |-> pc, n |-> n, st |-> st, turns |-> turns,
   assigned |-> assigned, alias |-> NoTables]

NoBuild == [mode |-> "build", pc |-> "idle"]

\* build(probs) is called: the checks, the normalisation and the forEach.
BuildCall ==
  /\ ret.op = "none" /\ dice.pc = "idle"
  /\ \E n \in {Len(state)} :
     \E probs \in {probsOf(state)} :
     \E sum \in {Sum(probs, n)} :
       IF n = 0 \/ ~FGt(sum, 0)
       THEN /\ ret' = Ret("build", "Alias", FALSE,
                          IF n = 0 THEN "empty vector" ELSE "must sum to > 0", 0)
            /\ dice' = dice
       ELSE /\ dice' = BuildFrame("run", n, AliasEntered(probs, sum, n), 0,
                                  Arr([i \in 0 .. n - 1 |-> 0]))
            /\ ret' = ret
  /\ UNCHANGED <<state, pre, returned, given>>

\* The body of while (small.length && large.length), once.
BuildPair ==
  /\ dice.pc = "run" /\ dice.st.small # <<>> /\ dice.st.large # <<>>
  /\ dice' = [dice EXCEPT !.st = pairingTurn(dice.st),
                          !.turns = dice.turns + 1,
                          !.assigned[Top(dice.st.small)] = @ + 1]
  /\ UNCHANGED <<state, ret, pre, returned, given>>

\* while (large.length) q[large.pop()] = 1, once, the pairing loop left.
BuildCloseLarge ==
  /\ dice.pc = "run" /\ dice.st.small = <<>> /\ dice.st.large # <<>>
  /\ dice' = [dice EXCEPT !.st.large = Pop(dice.st.large),
                          !.st.q[Top(dice.st.large)] = ONE,
                          !.assigned[Top(dice.st.large)] = @ + 1]
  /\ UNCHANGED <<state, ret, pre, returned, given>>

\* while (small.length) q[small.pop()] = 1, once, large being empty.
BuildCloseSmall ==
  /\ dice.pc = "run" /\ dice.st.large = <<>> /\ dice.st.small # <<>>
  /\ dice' = [dice EXCEPT !.st.small = Pop(dice.st.small),
                          !.st.q[Top(dice.st.small)] = ONE,
                          !.assigned[Top(dice.st.small)] = @ + 1]
  /\ UNCHANGED <<state, ret, pre, returned, given>>

\* this.q = q; this.J = J; this.n = n, and the return.
BuildReturn ==
  /\ dice.pc = "run" /\ dice.st.small = <<>> /\ dice.st.large = <<>>
  /\ dice' = [dice EXCEPT !.pc = "done",
                          !.alias = [q |-> dice.st.q, J |-> dice.st.J, n |-> dice.n]]
  /\ ret' = Ret("build", "Alias", TRUE, "", 0)
  /\ UNCHANGED <<state, pre, returned, given>>

\* state is the vector build() is called with.
InitBuild ==
  /\ state \in Vectors
  /\ dice = NoBuild
  /\ ret = Ret("none", "none", TRUE, "", 0)
  /\ pre = <<>>
  /\ returned = <<>>
  /\ given = Given(<<>>, FALSE, <<>>)

NextBuild ==
  BuildCall \/ BuildPair \/ BuildCloseLarge \/ BuildCloseSmall \/ BuildReturn

SpecBuild == InitBuild /\ [][NextBuild]_vars

\* A running call takes its next statement.
FairBuild == WF_vars(NextBuild)

SpecBuildFair == SpecBuild /\ FairBuild

(* CryptoRNG.int and pair on their own *)

\* Bound of the model: the bits of a word of the generator (32 in the
\* source), and the words getRandomValues() can store in buf[0].
WordBits == 5
range == 2 ^ WordBits
Words == 0 .. range - 1

\* A number argument: the integer arg, or arg + 1/2 when half is TRUE.
Num(arg, half) == [arg |-> arg, half |-> half]

\* Number.isInteger(v).
isInteger(v) == ~v.half

\* The limit of int(maxExclusive) without the rejection of the last words.
limitWholeRange(maxExclusive) == range

\* Math.floor(range / maxExclusive) * maxExclusive; the quotient of two
\* integers below 2^53 is floored exactly.
limit(maxExclusive) == (range \div maxExclusive) * maxExclusive

\* The start of int(maxExclusive): the argument check, range, limit and buf;
\* pc is "loop" at the head of the do-while, x is buf[0] (0 in a new array).
intEnter(v) ==
  IF ~isInteger(v) \/ v.arg <= 0
  THEN [ok |-> FALSE, err |-> "int(maxExclusive): maxExclusive must be a positive integer"]
  ELSE [ok |-> TRUE, err |-> "",
        frame |-> [mode |-> "rng", pc |-> "loop", maxExclusive |-> v.arg,
                   limit |-> limit(v.arg), x |-> 0]]

\* minD1 of pair(sum) without the lower clamp.
minD1Unclamped(sum) == 1

\* Math.max(1, sum - 6) and Math.min(6, sum - 1).
minD1(sum) == IF sum - 6 > 1 THEN sum - 6 ELSE 1
maxD1(sum) == IF sum - 1 < 6 THEN sum - 1 ELSE 6
width(sum) == maxD1(sum) - minD1(sum) + 1

\* The result of pair(sum) when rng.int(width) returned k.
pair(sum, k) ==
  The({[d1 |-> d1, d2 |-> sum - d1] : d1 \in {minD1(sum) + k}})

\* The frame of a call that is not running: before it, or after a throw.
NoFrame == [mode |-> "rng", pc |-> "idle", maxExclusive |-> 0, limit |-> 0, x |-> 0]

\* rng.int(maxExclusive) is called: up to the head of the loop.
IntCall ==
  /\ ret.op = "none" /\ state.fn = "int"
  /\ \E c \in {intEnter(Num(state.arg, state.half))} :
       /\ dice' = IF c.ok THEN c.frame ELSE NoFrame
       /\ ret' = IF c.ok THEN ret ELSE Ret("int", "CryptoRNG", FALSE, c.err, 0)
  /\ UNCHANGED <<state, pre, returned, given>>

\* pair(sum, rng) is called: minD1, maxD1, width, and the call of
\* rng.int(width) up to the head of its loop.
PairCall ==
  /\ ret.op = "none" /\ state.fn = "pair"
  /\ \E c \in {intEnter(Num(width(state.arg), FALSE))} :
       /\ dice' = IF c.ok THEN c.frame ELSE NoFrame
       /\ ret' = IF c.ok THEN ret ELSE Ret("pair", "CryptoRNG", FALSE, c.err, 0)
  /\ UNCHANGED <<state, pre, returned, given>>

\* One pass of the do-while: getRandomValues(buf) stores the word w, x is
\* buf[0]; x >= limit goes round again, else int() returns x % maxExclusive,
\* and pair() goes on from there to its return. pre keeps the last word
\* the loop went round again on, returned the pair that pair() returned.
Draw(w) ==
  /\ ret.op = "none" /\ dice.pc = "loop"
  /\ IF w >= dice.limit
     THEN /\ dice' = [dice EXCEPT !.x = w]
          /\ pre' = <<w>>
          /\ UNCHANGED ret
     ELSE /\ dice' = [dice EXCEPT !.x = w, !.pc = "done"]
          /\ UNCHANGED pre
          /\ ret' = IF state.fn = "int"
                    THEN Ret("int", "CryptoRNG", TRUE, "", w % dice.maxExclusive)
                    ELSE Ret("pair", "CryptoRNG", TRUE, "", 0)
  /\ returned' = IF w < dice.limit /\ state.fn = "pair"
                 THEN <<pair(state.arg, w % dice.maxExclusive)>>
                 ELSE returned
  /\ UNCHANGED <<state, given>>

\* The arguments of int(): the integers from -1 to two beyond the range, and
\* 1/2 and 2 1/2; the arguments of pair(): the sums, and 1 and 13.
IntArgs == {Num(n, FALSE) : n \in -1 .. range + 2} \cup {Num(0, TRUE), Num(2, TRUE)}
PairArgs == 1 .. 13

InitRng ==
  /\ state \in {[fn |-> "int", arg |-> v.arg, half |-> v.half] : v \in IntArgs}
                 \cup {[fn |-> "pair", arg |-> s, half |-> FALSE] : s \in PairArgs}
  /\ dice = NoFrame
  /\ ret = Ret("none", "none", TRUE, "", 0)
  /\ pre = <<>>
  /\ returned = <<>>
  /\ given = Given(<<>>, FALSE, <<>>)

NextRng == IntCall \/ PairCall \/ \E w \in Words : Draw(w)

SpecRng == InitRng /\ [][NextRng]_vars

\* A fair random source: every word it can produce, it eventually produces
\* while the loop keeps asking; a call that was made begins.
FairRng ==
  /\ WF_vars(IntCall) /\ WF_vars(PairCall)
  /\ \A w \in Words : WF_vars(Draw(w))

SpecRngFair == SpecRng /\ FairRng

(* settlements: create, upgrade, delete *)

\* Bounds of the model: the entries of state.settlements, and the ids given.
MaxSettlements == 3
MaxId == 4

\* An entry of state.settlements, by the two fields the buttons read: id, and
\* upgradedFromId as <<k>>, or <<>> where the entry has none. The player, the
\* turn and the income of an entry decide no button and are left out.
Settlement(id, from) == [id |-> id, upgradedFromId |-> from]

\* upgradedFromId as a condition: undefined is falsy, and so is the number 0.
truthy(from) == from # <<>> /\ from[1] # 0

\* state.settlements.some((s) => s.upgradedFromId === id).
someUpgradedFrom(settlements, id) ==
  \E i \in 1 .. Len(settlements) : settlements[i].upgradedFromId = <<id>>

\* The condition under which a card shows "Zur Stadt ausbauen".
upgradeShown(settlements, s) ==
  ~truthy(s.upgradedFromId) /\ ~someUpgradedFrom(settlements, s.id)

\* The condition under which a card shows the delete button.
deleteShown(settlements, s) ==
  truthy(s.upgradedFromId) \/ ~someUpgradedFrom(settlements, s.id)

\* settlements.length === 0 ? 0 : Math.max(...ids) + 1.
nextId(settlements) ==
  IF Len(settlements) = 0 THEN 0
  ELSE CHOOSE m \in 0 .. MaxId + 1 :
         /\ \E i \in 1 .. Len(settlements) : m = settlements[i].id + 1
         /\ \A i \in 1 .. Len(settlements) : m > settlements[i].id

\* state.settlements.findIndex((element) => element.id === id), from 0; -1
\* when there is none.
findIndex(settlements, id) ==
  IF \E i \in 1 .. Len(settlements) : settlements[i].id = id
  THEN (CHOOSE i \in 1 .. Len(settlements) :
          /\ settlements[i].id = id
          /\ \A j \in 1 .. i - 1 : settlements[j].id # id) - 1
  ELSE -1

\* settlements.slice(0, end) and settlements.slice(start), indices from 0, a
\* negative index counting from the end.
sliceTo(settlements, end) ==
  SubSeq(settlements, 1, IF end < 0 THEN Len(settlements) + end ELSE end)
sliceFrom(settlements, start) == SubSeq(settlements, start + 1, Len(settlements))

\* The dialog state of SettlementsTab: deleteDialogOpen, settlementToDelete
\* (<<>> for null).
Tab(open, toDelete) ==
  [mode |-> "settlements", deleteDialogOpen |-> open, settlementToDelete |-> toDelete]

\* CreateSettlement.validateAndSave with a valid form.
CreateSettlementSave ==
  /\ ~dice.deleteDialogOpen
  /\ Len(state) < MaxSettlements /\ nextId(state) <= MaxId
  /\ state' = state \o <<Settlement(nextId(state), <<>>)>>
  /\ ret' = Ret("create", "CreateSettlement", TRUE, "", nextId(state))
  /\ UNCHANGED <<dice, pre, returned, given>>

\* A click on "Zur Stadt ausbauen" of the card of the entry at position i:
\* the entry is copied with a new id and upgradedFromId: its id.
UpgradeClick(i) ==
  /\ ~dice.deleteDialogOpen
  /\ i \in 1 .. Len(state) /\ upgradeShown(state, state[i])
  /\ Len(state) < MaxSettlements /\ nextId(state) <= MaxId
  /\ state' = state \o <<Settlement(nextId(state), <<state[i].id>>)>>
  /\ ret' = Ret("upgrade", "SettlementsTab", TRUE, "", state[i].id)
  /\ UNCHANGED <<dice, pre, returned, given>>

\* handleDeleteClick(settlement.id) from the card of the entry at position i.
DeleteClick(i) ==
  /\ ~dice.deleteDialogOpen
  /\ i \in 1 .. Len(state) /\ deleteShown(state, state[i])
  /\ dice' = Tab(TRUE, <<state[i].id>>)
  /\ ret' = Ret("deleteClick", "SettlementsTab", TRUE, "", state[i].id)
  /\ UNCHANGED <<state, pre, returned, given>>

\* handleDeleteConfirm.
DeleteConfirm ==
  /\ dice.deleteDialogOpen
  /\ state' = IF dice.settlementToDelete # <<>>
              THEN \* index is findIndex(...), used twice
                   sliceTo(state, findIndex(state, dice.settlementToDelete[1]))
                     \o sliceFrom(state, findIndex(state, dice.settlementToDelete[1]) + 1)
              ELSE state
  /\ dice' = Tab(FALSE, <<>>)
  /\ ret' = Ret("delete", "SettlementsTab", TRUE, "",
                IF dice.settlementToDelete # <<>> THEN dice.settlementToDelete[1] ELSE 0)
  /\ UNCHANGED <<pre, returned, given>>

\* handleDeleteCancel.
DeleteCancel ==
  /\ dice.deleteDialogOpen
  /\ dice' = Tab(FALSE, <<>>)
  /\ ret' = Ret("deleteCancel", "SettlementsTab", TRUE, "", 0)
  /\ UNCHANGED <<state, pre, returned, given>>

\* A new game: no settlements, the dialog closed.
InitSettlements ==
  /\ state = <<>>
  /\ dice = Tab(FALSE, <<>>)
  /\ ret = Ret("none", "none", TRUE, "", 0)
  /\ pre = <<>>
  /\ returned = <<>>
  /\ given = Given(<<>>, FALSE, <<>>)

NextSettlements ==
  \/ CreateSettlementSave
  \/ \E i \in 1 .. MaxSettlements : UpgradeClick(i)
  \/ \E i \in 1 .. MaxSettlements : DeleteClick(i)
  \/ DeleteConfirm
  \/ DeleteCancel

SpecSettlements == InitSettlements /\ [][NextSettlements]_vars

(* construction *)

\* Parameter values that the constructor of AdaptiveDice must refuse, and
\* values it accepts.
BadBetas == {0, ONE + ONE \div 2, FNeg(ONE \div 4), NaN}
GoodBetas == {1, DefaultBeta, ONE}
BadEtas == {FNeg(ONE), NaN}
GoodEtas == {0, DefaultEta}
BadEpsilons == {FNeg(FDiv(IntF(1), IntF(10))), ONE + 1, NaN}
GoodEpsilons == {0, DefaultEpsilon, ONE}

\* Bag sizes that the constructor of ShuffleBagDice must refuse, and sizes
\* it accepts.
BadBagSizes == {-36, 0, 10, 37}
GoodBagSizes == {36 * k : k \in 1 .. MaxScale}

\* Persisted histories: within the domain 2..12, and with a value outside.
GoodRolls == {<<>>, <<7>>, <<2, 12>>}
BadRolls == {<<13>>, <<1, 7>>, <<7, 0>>}

\* Arguments of new AdaptiveDice(...): options, and states (with a mode tag).
AdaptiveOptions ==
  {<<>>}
    \cup {[beta |-> b, eta |-> h, epsilon |-> x] :
            b \in BadBetas \cup GoodBetas, h \in BadEtas \cup GoodEtas,
            x \in BadEpsilons \cup GoodEpsilons}

AdaptiveStates ==
  {[mode |-> "adaptive", beta |-> o.beta, eta |-> o.eta,
    epsilon |-> o.epsilon, rolls |-> <<7>>] : o \in AdaptiveOptions \ {<<>>}}
    \cup {[mode |-> "adaptive", rolls |-> r] : r \in GoodRolls \cup BadRolls}

\* Arguments of new ShuffleBagDice(...): a size, and states.
BagOptions ==
  {<<>>} \cup {[bagSize |-> n] : n \in BadBagSizes \cup GoodBagSizes}

BagStates ==
  {[mode |-> "shuffle-bag", bagSize |-> n, rolls |-> r, bagPtr |-> Len(r)] :
     n \in BadBagSizes \cup GoodBagSizes, r \in GoodRolls \cup BadRolls}

\* Arguments of new RealDice(...): nothing, and states.
RealStates ==
  {<<>>, [mode |-> "real-life"]}
    \cup {[mode |-> "real-life", rolls |-> r] : r \in GoodRolls \cup BadRolls}

\* States without one of the three mode tags.
UntaggedStates ==
  {[rolls |-> <<7>>], [mode |-> "fair", rolls |-> <<7>>],
   [mode |-> "real", rolls |-> <<>>], [mode |-> "shuffle", bagSize |-> 36]}

\* The caller after new C(state) ended with result c: it holds the instance
\* if the constructor returned.
Constructed(class, c) ==
  /\ dice' = IF c.ok THEN c.dice ELSE NoInstance
  /\ ret' = Ret("new", class, c.ok, c.err, 0)
  /\ UNCHANGED <<state, pre, returned, given>>

\* new AdaptiveDice(state).
NewAdaptiveDice ==
  /\ ret.op = "none"
  /\ state \in AdaptiveOptions \cup AdaptiveStates
  /\ \E c \in {AdaptiveNew(state)} : Constructed("AdaptiveDice", c)

\* new ShuffleBagDice(state).
NewShuffleBagDice ==
  /\ ret.op = "none"
  /\ state \in BagOptions \cup BagStates
  /\ \E c \in {BagNew(state)} : Constructed("ShuffleBagDice", c)

\* new RealDice(state).
NewRealDice ==
  /\ ret.op = "none"
  /\ state \in RealStates
  /\ \E c \in {RealNew(state)} : Constructed("RealDice", c)

\* new DiceManager(state): this.state = state, this.instance = getDice(state).
NewDiceManager ==
  /\ ret.op = "none"
  /\ state # <<>>
  /\ \E c \in {getDice(state)} : Constructed("DiceManager", c)

\* roll(state), undo(state), rolls(state) on a state that getDice refuses:
\* the throw of getDice leaves the call.
DispatchRefused ==
  /\ state # <<>>
  /\ \E op \in {"roll", "undo", "rolls"} :
       \E c \in {getDice(state)} :
         /\ ~c.ok
         /\ ret' = Ret(op, "functional", FALSE, c.err, 0)
  /\ UNCHANGED <<dice, state, pre, returned, given>>

\* The argument of a constructor, before the constructor runs.
InitNew ==
  /\ state \in AdaptiveOptions \cup AdaptiveStates \cup BagOptions
                 \cup BagStates \cup RealStates \cup UntaggedStates
  /\ dice = NoInstance
  /\ ret = Ret("none", "none", TRUE, "", 0)
  /\ pre = <<>>
  /\ returned = <<>>
  /\ given = Given(ArrayOf(state), FALSE, ArrayOf(state))

NextNew ==
  \/ NewAdaptiveDice
  \/ NewShuffleBagDice
  \/ NewRealDice
  \/ NewDiceManager
  \/ DispatchRefused

SpecNew == InitNew /\ [][NextNew]_vars

(* --------------------------- adaptive: properties ----------------------- *)

\* C1: roll() and then undo() on an instance leave its roll history, its EMA
\* error vector e and its distribution q equal to what they were before the
\* roll.
C1_RollUndoRestores ==
  (ret.op = "undo" /\ pre # <<>>) =>
    /\ dice.rolls = pre[1].rolls
    /\ dice.e = pre[1].e
    /\ dice.q = pre[1].q

\* C2: after any sequence of roll, undo and restore, the e and q the instance
\* holds are those of a replay of its history from the empty state.
C2_EqualsReplay ==
  \E replayed \in {rebuildFromRolls(dice)} :
    /\ dice.e = replayed.e
    /\ dice.q = replayed.q

\* The snapshots of an instance: toState(), alone or carrying derived fields.
SnapshotsOf(d) ==
  {AdaptiveToState(d)} \cup {WithCache(AdaptiveToState(d), c) : c \in StaleCaches}

\* C3: the instance constructed from X.toState() exists and has the beta,
\* eta, epsilon, roll history and q of X, whatever derived fields the snapshot
\* carries.
C3_RestoreOfSnapshot ==
  \A s \in SnapshotsOf(dice) :
    \E c \in {AdaptiveNew(s)} :
      /\ c.ok
      /\ c.dice.beta = dice.beta
      /\ c.dice.eta = dice.eta
      /\ c.dice.epsilon = dice.epsilon
      /\ c.dice.rolls = dice.rolls
      /\ c.dice.q = dice.q

\* C4: after every roll, undo and restore, q[k] >= epsilon * p[k] for every
\* outcome index k.
C4_Floor ==
  \A k \in Idx : FGe(dice.q[k], FMul(dice.epsilon, TARGET_P[k]))

\* C5: for valid parameters no outcome has zero probability, q is at least
\* the floor, and the alias build of roll, undo and restore never fails.
C5_AliasNeverFails ==
  /\ \A k \in Idx : /\ FGt(dice.q[k], 0)
                     /\ FGe(dice.q[k], FMul(dice.epsilon, TARGET_P[k]))
  /\ ret.err \notin {"must sum to > 0", "empty vector"}

\* C6: q sums to exactly 1 after every recomputation.
C6_SumsToOne == Sum(dice.q, N) = ONE

(* -------------------------- shuffle bag: properties --------------------- *)

\* The number of times outcome o occurs among the draws lo..hi of history h.
CountIn(h, lo, hi, o) == Cardinality({i \in lo .. hi : h[i] = o})

\* C7: in shuffle-bag mode with bagSize = 36 * s, started fresh, every
\* complete bag traversal of the history (draws j * bagSize + 1 ..
\* (j + 1) * bagSize) holds each outcome exactly multiplicity * s times,
\* whatever the shuffles were and whatever undos came in between.
C7_BagComposition ==
  \A j \in 0 .. (dice.ptr \div dice.bagSize) - 1 :
    \A k \in Idx :
      CountIn(BagRolls(dice), j * dice.bagSize + 1, (j + 1) * dice.bagSize,
              SUMS[k])
        = TWO_DICE_COUNTS[k] * (dice.bagSize \div 36)

\* A bag of scale MaxScale has been traversed completely, the next one has
\* been entered, and an undo has just stepped back.
C7_Witness ==
  /\ dice.bagSize = 36 * MaxScale
  /\ dice.ptr >= dice.bagSize
  /\ Len(dice.rollsBag) > dice.bagSize
  /\ ret.op = "undo" /\ ret.ok

\* C8: in shuffle-bag mode an undo() at position 0 throws and changes
\* nothing; at any later position it moves the pointer back by one, and the
\* roll() that follows a successful undo returns the value that the undone
\* roll had returned.
C8_UndoThenReroll ==
  [][/\ (ret'.op = "undo" /\ dice.ptr = 0)
          => (~ret'.ok /\ ret'.err = "at start of bag"
              /\ dice' = dice /\ state' = state)
     /\ (ret'.op = "undo" /\ dice.ptr > 0)
          => (ret'.ok /\ dice'.ptr = dice.ptr - 1)
     /\ (ret.op = "undo" /\ ret.ok /\ ret'.op = "roll")
          => (ret'.ok /\ ret'.out = ret.out)]_vars

\* An undo at a position after 0 has succeeded and reported the outcome it
\* took back; a roll can follow.
C8_Witness ==
  /\ ret.op = "undo" /\ ret.ok
  /\ isDiceOutcome(ret.out)
  /\ dice.ptr > 0
  /\ dice.ptr < Len(dice.rollsBag)

\* C9 as stated: an undo() while no element of the current bag has been
\* drawn throws, also when earlier bags were drawn completely, so that undo
\* never steps back over the start of a bag.
C9_NeverCrossesBoundary ==
  [][(ret'.op = "undo" /\ CurrentBagUndrawn(dice)) => ~ret'.ok]_vars

\* C9, amended: an undo() throws exactly when the pointer is at 0; everywhere
\* else, the start of a later bag included, it succeeds, moves the pointer
\* back by one (into the previous bag, which is kept) and leaves the drawn
\* bags as they were.
C9_FailsOnlyAtZero ==
  [][ret'.op = "undo"
       => /\ ret'.ok <=> dice.ptr # 0
          /\ ret'.ok => /\ dice'.ptr = dice.ptr - 1
                        /\ dice'.rollsBag = dice.rollsBag]_vars

\* An undo has stepped from the start of a later bag, entered and undrawn,
\* back onto the last element of the bag before it.
C9_Witness ==
  /\ ret.op = "undo" /\ ret.ok
  /\ dice.ptr % dice.bagSize = dice.bagSize - 1
  /\ Len(dice.rollsBag) > dice.ptr + 1

(* ----------------------- real-life, adaptive: undo ---------------------- *)

\* C10: in real-life and adaptive mode an undo() on an empty history, by
\* manager.undo() on the instance or by the functional undo(state), throws
\* (it is never a silent no-op) and leaves instance and state unchanged.
C10_UndoOnEmptyThrows ==
  [][(ret'.op = "undo" /\ Len(dice.rolls) = 0)
       => /\ ~ret'.ok
          /\ ret'.err = "no rolls"
          /\ dice' = dice
          /\ state' = state]_vars

\* The functional undo(state) has thrown on a real-life game without rolls.
C10_Witness ==
  /\ dice.mode = "real-life"
  /\ Len(dice.rolls) = 0
  /\ ret.op = "undo" /\ ret.via = "functional"
  /\ ~ret.ok /\ ret.err = "no rolls"

(* ------------------------- construction: properties --------------------- *)

\* The strategy class that a finished construction ran.
ClassBuilt ==
  IF ret.via = "DiceManager"
  THEN (CASE modeOf(state) = "adaptive" -> "AdaptiveDice"
          [] modeOf(state) = "shuffle-bag" -> "ShuffleBagDice"
          [] modeOf(state) = "real-life" -> "RealDice"
          [] OTHER -> "none")
  ELSE ret.via

\* C11: a construction, fresh or from a snapshot, with beta outside (0,1],
\* eta negative, epsilon outside [0,1] or a bag size that is no positive
\* multiple of 36 throws and leaves no instance; a construction that returns
\* holds the parameters it was given (or the defaults), never clamped ones.
C11_InvalidParametersThrow ==
  ret.op = "new" =>
    /\ (/\ ClassBuilt = "AdaptiveDice"
        /\ \/ Opt(state, "beta", DefaultBeta) \in BadBetas
           \/ Opt(state, "eta", DefaultEta) \in BadEtas
           \/ Opt(state, "epsilon", DefaultEpsilon) \in BadEpsilons)
         => (~ret.ok /\ ret.err = "parameter" /\ dice = NoInstance)
    /\ (ClassBuilt = "ShuffleBagDice"
        /\ Opt(state, "bagSize", DefaultBagSize) \in BadBagSizes)
         => (/\ ~ret.ok /\ dice = NoInstance
             /\ ret.err \in {"positive integer", "multiple of 36"})
    /\ (ClassBuilt = "AdaptiveDice" /\ ret.ok)
         => /\ dice.beta = Opt(state, "beta", DefaultBeta)
            /\ dice.eta = Opt(state, "eta", DefaultEta)
            /\ dice.epsilon = Opt(state, "epsilon", DefaultEpsilon)
    /\ (ClassBuilt = "ShuffleBagDice" /\ ret.ok)
         => dice.bagSize = Opt(state, "bagSize", DefaultBagSize)

\* A manager was asked for from a snapshot with beta = 1.5 and got none.
C11_Witness ==
  /\ ret.op = "new" /\ ret.via = "DiceManager"
  /\ modeOf(state) = "adaptive"
  /\ Opt(state, "beta", DefaultBeta) = ONE + ONE \div 2
  /\ ~ret.ok /\ dice = NoInstance

\* C12: restoring a strategy from a snapshot whose persisted rolls hold a
\* value outside 2..12 throws and yields no instance, in each of the three
\* modes.
C12_InvalidRollsRefused ==
  (/\ ret.op = "new"
   /\ modeOf(state) \in {"real-life", "adaptive", "shuffle-bag"}
   /\ Opt(state, "rolls", <<>>) \in BadRolls)
    => (~ret.ok /\ dice = NoInstance)

\* C13: the dispatch of getDice is exhaustive: under each of the three mode
\* tags a manager that is built holds the strategy of that tag, and for a
\* state with a missing or unknown tag the constructor of the manager and
\* the functional roll, undo and rolls throw the unknown-mode error; no
\* strategy is built by default.
C13_DispatchExhaustive ==
  /\ (ret.op = "new" /\ ret.via = "DiceManager" /\ ret.ok)
       => (/\ modeOf(state) \in {"real-life", "adaptive", "shuffle-bag"}
           /\ dice.mode = modeOf(state))
  /\ (/\ ret.op = "new" /\ ret.via = "DiceManager"
      /\ modeOf(state) \notin {"real-life", "adaptive", "shuffle-bag"})
       => (~ret.ok /\ ret.err = "unknown dice mode" /\ dice = NoInstance)
  /\ (/\ ret.op \in {"roll", "undo", "rolls"} /\ ret.via = "functional"
      /\ modeOf(state) \notin {"real-life", "adaptive", "shuffle-bag"})
       => (~ret.ok /\ ret.err = "unknown dice mode")

\* The functional roll was called on a state without a mode tag and threw.
C13_Witness ==
  /\ ret.op = "roll" /\ ret.via = "functional"
  /\ modeOf(state) = "undefined"
  /\ ~ret.ok /\ ret.err = "unknown dice mode"

(* ------------------------ failure: properties --------------------------- *)

\* What the claim calls the state of a strategy: the roll history and the
\* EMA errors, or the bag contents and the pointer.
Mutable(d) ==
  CASE d.mode = "adaptive" -> <<d.rolls, d.e>>
    [] d.mode = "shuffle-bag" -> <<d.rollsBag, d.ptr>>
    [] OTHER -> <<d.rolls>>

\* C14: a roll() or undo() of the manager's instance that throws leaves the
\* roll history and the EMA errors (the bag and its pointer) of the instance
\* exactly as they were before the call.
C14_NoPartialMutation ==
  [][(ret'.op \in {"roll", "undo"} /\ ret'.via = "manager" /\ ~ret'.ok)
       => Mutable(dice') = Mutable(dice)]_vars

(* ---------------------- immutable update: properties -------------------- *)

\* C15: a DiceManager method (roll, undo, addRoll) and the functional
\* roll(state) / undo(state) that return leave the rolls array of the
\* DiceState object they were given (the object of the manager's
\* constructor, the argument of the functional call) with the length and
\* the contents it had before the call.
C15_GivenStateUnchanged ==
  [][(ret'.op \in {"roll", "undo", "addRoll"} /\ ret'.ok)
       => given'.arg = IF ret'.via = "manager" THEN given.obj
                       ELSE ArrayOf(state)]_vars

(* ------------------------ every mode: properties ------------------------ *)

\* C16: from a fresh instance of any strategy, after any rolls and undos, a
\* roll() that returns returns one of the sums 2..12, and every index the
\* alias table of an adaptive instance can yield is one of 0..10.
C16_OutcomeInDomain ==
  /\ (ret.op = "roll" /\ ret.ok) => (ret.out \in Int /\ isDiceOutcome(ret.out))
  /\ dice.mode = "adaptive" =>
       /\ dice.alias.n = N
       /\ \A i \in 0 .. dice.alias.n - 1, u \in Float01 :
            sampleIndex(dice.alias, i, u) \in Idx

\* A roll drawn from the second bag of a shuffle bag.
C16_Witness ==
  /\ ret.op = "roll" /\ ret.ok /\ dice.mode = "shuffle-bag"
  /\ dice.ptr > dice.bagSize
  /\ ret.out = dice.rollsBag[dice.ptr]

\* C17: in every mode a roll() that returns makes the history reported by
\* rolls the history before the call with the returned outcome appended; an
\* undo() that returns makes it the history before the call without its last
\* entry; and no call on the manager's instance, returning or not, does
\* anything to its history but append one entry or remove the last.
C17_AppendOnly ==
  [][LET before == IF ret'.via = "manager" THEN Rolls(dice)
                   ELSE Rolls(getDice(state).dice)
         IsPrefixByOne(s, t) == /\ Len(t) - Len(s) \in {0, 1}
                                /\ s = SubSeq(t, 1, Len(s))
     IN /\ (ret'.op = "roll" /\ ret'.ok)
             => Rolls(dice') = Append(before, ret'.out)
        /\ (ret'.op = "undo" /\ ret'.ok)
             => (before # <<>> /\ Rolls(dice') = Pop(before))
        /\ ret'.via = "manager"
             => \/ IsPrefixByOne(before, Rolls(dice'))
                \/ IsPrefixByOne(Rolls(dice'), before)]_vars

\* An undo that returned at the start of the second bag: the history is the
\* first bag without its last entry, the stored bags are two.
C17_Witness ==
  /\ ret.op = "undo" /\ ret.ok /\ dice.mode = "shuffle-bag"
  /\ dice.ptr = dice.bagSize - 1
  /\ Len(dice.rollsBag) = 2 * dice.bagSize
  /\ Len(Rolls(dice)) = dice.bagSize - 1

(* ------------------------ snapshot of the bag --------------------------- *)

\* C18: the instance constructed from X.toState() of a shuffle bag X exists,
\* reports the bagSize, pointer and history of X, and its next roll (for
\* each random source) and its next undo return or throw as those of X do
\* and leave an instance equal to the one X becomes.
C18_RestoredBagIdentical ==
  dice.mode = "shuffle-bag" =>
    \E y \in {BagNew(BagToState(dice))} :
      /\ y.ok
      /\ y.dice.bagSize = dice.bagSize
      /\ y.dice.ptr = dice.ptr
      /\ BagRolls(y.dice) = BagRolls(dice)
      /\ BagUndo(y.dice) = BagUndo(dice)
      /\ \A tape \in Tapes : BagRoll(y.dice, tape) = BagRoll(dice, tape)

\* An instance whose last roll drew the last entry of its first bag: the
\* next roll of the instance restored from its snapshot draws a second bag.
C18_Witness ==
  /\ dice.mode = "shuffle-bag" /\ ret.op = "roll" /\ ret.ok
  /\ dice.ptr = dice.bagSize /\ Len(dice.rollsBag) = dice.bagSize
  /\ \E tape \in Tapes :
       Len(BagRoll(BagNew(BagToState(dice)).dice, tape).dice.rollsBag)
         = 2 * dice.bagSize

(* ---------------------------- Alias: properties ------------------------- *)

\* The exact sum of a vector of finite entries, in units of 1/SCALE.
RECURSIVE ExactSum(_)
ExactSum(v) == IF v = <<>> THEN 0 ELSE Head(v) + ExactSum(Tail(v))

\* SCALE times the probability with which sampleIndex yields k when the
\* bucket i is uniform and u is uniform on [0, 1), times n.
RECURSIVE MassUpTo(_, _, _)
MassUpTo(alias, k, i) ==
  IF i < 0 THEN 0
  ELSE MassUpTo(alias, k, i - 1)
         + (IF i = k THEN alias.q[i] ELSE 0)
         + (IF i # k /\ alias.J[i] = k THEN ONE - alias.q[i] ELSE 0)

\* C19: after a build() that returned, from a vector of n nonnegative
\* weights with a positive sum, every q[i] is in [0, 1], every J[i] is in
\* 0..n-1, and for every k the mass q[k] + sum of (1 - q[i]) over the i # k
\* with J[i] = k is n * weight[k] / sum(weights), up to the rounding of the
\* build: n * (n + 1) units of 1/SCALE.
C19_MassConserved ==
  (/\ ret.op \in {"new", "build"} /\ ret.ok
   /\ \A j \in 1 .. Len(pre[1]) : pre[1][j] \in Weights
   /\ ExactSum(pre[1]) > 0)
    => \E n \in {Len(pre[1])}, sum \in {ExactSum(pre[1])} :
         /\ dice.n = n
         /\ \A i \in 0 .. n - 1 :
              /\ 0 <= dice.q[i] /\ dice.q[i] <= ONE
              /\ dice.J[i] \in 0 .. n - 1
         /\ \A k \in 0 .. n - 1 :
              \E diff \in {MassUpTo(dice, k, n - 1) * sum
                             - n * pre[1][k + 1] * SCALE} :
                /\ diff <= n * (n + 1) * sum
                /\ -diff <= n * (n + 1) * sum

\* C20: build() throws when the vector is empty or its sum is not greater
\* than 0 (a NaN sum included) and returns otherwise, and a build() that
\* throws on an object built before leaves its tables q, J, n, and so every
\* index sampleIndex yields, as they were.
C20_BuildFailureKeepsTables ==
  [][ret'.op \in {"new", "build"} =>
       \E v \in {Head(state)} :
         /\ ~ret'.ok <=> \/ v = <<>>
                         \/ \E j \in 1 .. Len(v) : IsNaN(v[j])
                         \/ ExactSum(v) <= 0
         /\ ret'.ok \/ ret'.err = IF v = <<>> THEN "empty vector"
                                  ELSE "must sum to > 0"
         /\ (ret'.op = "build" /\ ~ret'.ok) =>
              /\ dice' = dice
              /\ \A i \in 0 .. dice.n - 1, u \in Float01 :
                   sampleIndex(dice', i, u) = sampleIndex(dice, i, u)]_vars

\* A build() from a vector that sums to 0 threw on an object that holds the
\* tables of three weights.
C20_Witness ==
  /\ ret.op = "build" /\ ~ret.ok /\ ret.err = "must sum to > 0"
  /\ pre = <<<<0, ONE, ONE \div 3>>>>
  /\ dice.n = 3 /\ dice.q[0] = 0 /\ dice.J[0] # 0

\* C21: CryptoRNG.int(n) has no modulo bias. For every integer n with
\* 1 <= n <= range, the loop goes round again exactly on the words at or
\* above floor(range / n) * n, the value returned is x % n and lies in
\* 0 .. n - 1, and every residue r in 0 .. n - 1 is the result of exactly
\* floor(range / n) of the words the loop accepts.
C21_NoModuloBias ==
  (state.fn = "int" /\ dice.pc \in {"loop", "done"} /\ dice.maxExclusive <= range) =>
    \E n \in {dice.maxExclusive} :
      /\ \A r \in 0 .. n - 1 :
           Cardinality({w \in Words : w < dice.limit /\ w % n = r}) = range \div n
      /\ pre # <<>> => pre[1] >= (range \div n) * n
      /\ dice.pc = "done" =>
           /\ dice.x < (range \div n) * n
           /\ ret.ok /\ ret.out = dice.x % n /\ ret.out \in 0 .. n - 1

\* int(3) returned 2 after the loop went round again on the last word of the
\* range, which is above the largest multiple of 3.
C21_Witness ==
  /\ state.fn = "int" /\ dice.maxExclusive = 3 /\ dice.pc = "done"
  /\ pre = <<range - 1>> /\ range % 3 # 0
  /\ ret.ok /\ ret.out = 2

\* C22: pair(sum). For every sum in 2 .. 12 the call asks rng.int for one
\* of width = 6 - |sum - 7| integers and never throws; whatever words the
\* source produces, the pair returned has 1 <= d1 <= 6, 1 <= d2 <= 6 and
\* d1 + d2 = sum; the integers 0 .. width - 1 map one-to-one onto all the
\* feasible pairs, and every feasible pair is the result of the same number
\* of the words the loop accepts.
C22_PairFairAndFeasible ==
  (state.fn = "pair" /\ state.arg \in 2 .. 12) =>
    \E sum \in {state.arg} :
    \E feasible \in {{[d1 |-> a, d2 |-> sum - a] : a \in {b \in 1 .. 6 : sum - b \in 1 .. 6}}} :
      /\ ret.ok
      /\ dice.pc \in {"loop", "done"} =>
           \E wd \in {dice.maxExclusive} :
             /\ wd = 6 - (IF sum > 7 THEN sum - 7 ELSE 7 - sum)
             /\ {pair(sum, k) : k \in 0 .. wd - 1} = feasible
             /\ Cardinality(feasible) = wd
             /\ \A p \in feasible :
                  Cardinality({w \in Words : w < dice.limit /\ pair(sum, w % wd) = p})
                    = range \div wd
             /\ dice.pc = "done" =>
                  /\ ret.op = "pair" /\ returned = <<pair(sum, dice.x % wd)>>
                  /\ returned[1] \in feasible
                  /\ returned[1].d1 \in 1 .. 6 /\ returned[1].d2 \in 1 .. 6
                  /\ returned[1].d1 + returned[1].d2 = sum

\* pair(10) returned (6, 4), the last of its three pairs, after the loop of
\* rng.int(3) went round again once.
C22_Witness ==
  /\ state.fn = "pair" /\ state.arg = 10 /\ dice.pc = "done"
  /\ pre # <<>> /\ dice.maxExclusive = 3
  /\ ret.op = "pair" /\ ret.ok /\ returned = <<[d1 |-> 6, d2 |-> 4]>>

\* C23: DiceManager.addRoll(outcome). On a real-life manager the call
\* returns, the history afterwards is the history before with the given
\* outcome appended, and the state returned and held is the instance's
\* toState() with that history. On an adaptive or a shuffle-bag manager the
\* call throws, and the instance, its history and the manager's state are
\* what they were.
C23_AddRollRealLifeOnly ==
  [][ret'.op = "addRoll" =>
       IF dice.mode = "real-life"
       THEN /\ ret'.ok
            /\ Rolls(dice') = Append(Rolls(dice), ret'.out)
            /\ dice'.mode = "real-life"
            /\ state' = ToState(dice') /\ state'.rolls = Rolls(dice')
       ELSE /\ ~ret'.ok /\ ret'.err = "real-life dice mode only"
            /\ dice' = dice /\ Rolls(dice') = Rolls(dice)
            /\ state' = state]_vars

\* addRoll(12) returned on a real-life manager whose history was not empty.
C23_Witness ==
  /\ ret.op = "addRoll" /\ ret.ok /\ ret.out = 12
  /\ dice.mode = "real-life" /\ Len(dice.rolls) = 2
  /\ dice.rolls[2] = 12 /\ dice.rolls[1] # 12
  /\ state.rolls = dice.rolls

\* C24: the EMA update of the adaptive strategy. A roll() of the manager's
\* instance that makes its history t rolls long leaves, for every index k in
\* 0 .. 10, e[k] = (1 - beta) * e_old[k] + beta * (c[k] / t - p[k]), where
\* e_old is the e the instance held before and c[k] counts the outcome k + 2
\* among the t rolls; and the e of an instance that was built or rebuilt by
\* a replay (a restore, an undo, the instance of a functional call that
\* returned) is that rule applied to the zero vector once for each roll of
\* its history, in order.
C24_EmaUpdateEveryIndex ==
  [][LET Rule(eOld, h, t, beta) ==
           [k \in Idx |->
              FAdd(FMul(FSub(ONE, beta), eOld[k]),
                   FMul(beta,
                        FSub(FDiv(IntF(Cardinality({j \in 1 .. t : h[j] = k + 2})),
                                  IntF(t)),
                             FDiv(IntF(TWO_DICE_COUNTS[k]), IntF(36)))))]
         RECURSIVE Replayed(_, _, _)
         Replayed(h, t, beta) ==
           IF t = 0 THEN [k \in Idx |-> 0]
           ELSE Rule(Replayed(h, t - 1, beta), h, t, beta)
     IN (dice'.mode = "adaptive" /\ dice.mode = "adaptive") =>
          /\ (ret'.op = "roll" /\ ret'.via = "manager") =>
               /\ Len(dice'.rolls) = Len(dice.rolls) + 1
               /\ \A k \in Idx :
                    dice'.e[k] = Rule(dice.e, dice'.rolls, Len(dice'.rolls), dice.beta)[k]
          /\ (ret'.ok /\ (ret'.op \in {"undo", "restore"} \/ ret'.via = "functional")) =>
               \A k \in Idx :
                 dice'.e[k] = Replayed(dice'.rolls, Len(dice'.rolls), dice'.beta)[k]]_vars

\* The second roll() of a manager returned 12 after a first 2, with the
\* default beta: the errors of the outcomes 2 and 7, neither of them the one
\* just drawn, have moved.
C24_Witness ==
  /\ ret.op = "roll" /\ ret.via = "manager" /\ ret.ok /\ ret.out = 12
  /\ dice.mode = "adaptive" /\ dice.rolls = <<2, 12>> /\ dice.beta = DefaultBeta
  /\ pre # <<>> /\ pre[1].rolls = <<2>>
  /\ dice.e[0] # pre[1].e[0] /\ dice.e[5] # pre[1].e[5]

\* C25: the order of the adaptive roll protocol. At every moment the alias
\* table the next draw will use is the one built from the q of exactly the
\* rolls now in the instance's history (the true distribution when there are
\* none): roll() draws from it, then appends, recomputes e and q and
\* rebuilds; undo() and a restore rebuild too; no draw uses a stale table.
C25_TableOfCurrentHistory ==
  dice.mode = "adaptive" =>
    \E replayed \in {rebuildFromRolls(dice)} :
      /\ dice.rolls = <<>> => replayed.q = TARGET_P
      /\ \E b \in {AliasBuild(replayed.q, N)} :
           /\ b.ok
           /\ dice.alias = b.tables
           /\ (ret.op = "roll" /\ ret.via = "manager" /\ pre # <<>>) =>
                /\ dice.rolls = Append(pre[1].rolls, ret.out)
                /\ \E i \in RngInts, u \in Float01 :
                     ret.out = SUMS[sampleIndex(pre[1].alias, i, u)]

\* C26: CryptoRNG.int(n) terminates for every positive integer n. Under a
\* random source that eventually produces every word, a call of int with a
\* positive integer eventually returns.
C26_IntTerminates ==
  (state.fn = "int" /\ isInteger(state) /\ state.arg > 0)
    ~> (ret.op = "int" /\ ret.ok /\ dice.pc = "done")

\* C27: Alias.build terminates. A call of build() with a vector of length
\* n >= 1 whose sum is positive returns; the pairing loop takes at most
\* n - 1 turns, each turn leaving one index fewer on the two work lists
\* together; no q entry is assigned twice, and at the return every index
\* 0 .. n - 1 has had its q entry assigned exactly once (the tables being
\* those of the build as a whole).
C27_BuildTerminates ==
  /\ [](dice.pc \in {"run", "done"} =>
          /\ dice.turns <= dice.n - 1
          /\ \A i \in 0 .. dice.n - 1 : dice.assigned[i] <= 1
          /\ (\A i \in 0 .. dice.n - 1 : dice.assigned[i] = 0) =>
               Len(dice.st.small) + Len(dice.st.large) = dice.n
          /\ Len(dice.st.small) + Len(dice.st.large)
               = Cardinality({i \in 0 .. dice.n - 1 : dice.assigned[i] = 0})
          /\ dice.pc = "done" =>
               /\ \A i \in 0 .. dice.n - 1 : dice.assigned[i] = 1
               /\ dice.alias = AliasBuild(probsOf(state), Len(state)).tables)
  /\ [][dice.pc = "run" /\ dice'.turns = dice.turns + 1 =>
          Len(dice'.st.small) + Len(dice'.st.large)
            = Len(dice.st.small) + Len(dice.st.large) - 1]_vars
  /\ (dice.pc = "run") ~> (dice.pc = "done" /\ ret.ok)

\* build() returned for three weights after two turns of the pairing loop,
\* the most that three indices allow.
C27_Witness ==
  /\ dice.pc = "done" /\ ret.op = "build" /\ ret.ok
  /\ dice.n = 3 /\ dice.turns = 2

\* C28: the shuffle-bag strategy, from a fresh instance. After any sequence
\* of roll() and undo(): 0 <= ptr <= the length of the stored bag sequence,
\* that length is a multiple of bagSize, the history reported is exactly the
\* first ptr stored elements; and no call changes a stored element: a refill
\* adds bagSize elements behind the old ones and leaves every position below
\* the old length as it was.
C28_BagInvariant ==
  [][LET Shape(d) ==
           /\ 0 <= d.ptr /\ d.ptr <= Len(d.rollsBag)
           /\ Len(d.rollsBag) % d.bagSize = 0
           /\ Len(Rolls(d)) = d.ptr
           /\ \A i \in 1 .. d.ptr : Rolls(d)[i] = d.rollsBag[i]
     IN /\ Shape(dice) /\ Shape(dice')
        /\ Len(dice'.rollsBag) \in {Len(dice.rollsBag),
                                    Len(dice.rollsBag) + dice.bagSize}
        /\ \A i \in 1 .. Len(dice.rollsBag) : dice'.rollsBag[i] = dice.rollsBag[i]
        /\ Len(dice'.rollsBag) # Len(dice.rollsBag) =>
             /\ ret'.op = "roll" /\ dice.ptr = Len(dice.rollsBag)
             /\ dice'.ptr = dice.ptr + 1]_vars

\* A roll() has refilled: the second bag is stored behind the first, whose
\* shuffled order is the one it had, and its first element is drawn.
C28_Witness ==
  /\ dice.mode = "shuffle-bag" /\ ret.op = "roll" /\ ret.ok
  /\ Len(dice.rollsBag) = 2 * dice.bagSize /\ dice.ptr = dice.bagSize + 1
  /\ SubSeq(dice.rollsBag, 1, dice.bagSize) # Fresh(0, dice.bagSize \div 36)
  /\ Rolls(dice) = SubSeq(dice.rollsBag, 1, dice.ptr)

\* C29: the settlement upgrade rule. After any sequence of create, upgrade
\* and delete, the upgrade button is shown only on an entry that is not a
\* city (it has no upgradedFromId) and that no entry was upgraded from; hence
\* no entry was upgraded from a city, and no two entries were upgraded from
\* the same settlement.
C29_UpgradeOnlyFreshSettlements ==
  /\ \A i \in 1 .. Len(state) :
       upgradeShown(state, state[i]) =>
         /\ state[i].upgradedFromId = <<>>
         /\ \A j \in 1 .. Len(state) : state[j].upgradedFromId # <<state[i].id>>
  /\ \A i, j \in 1 .. Len(state) :
       (state[j].upgradedFromId = <<state[i].id>>) => state[i].upgradedFromId = <<>>
  /\ \A i, j \in 1 .. Len(state) :
       (i # j /\ state[i].upgradedFromId # <<>>) =>
         state[i].upgradedFromId # state[j].upgradedFromId

====
